---- MODULE Spec2Model ----
(***************************************************************************)
(* SettleUp: the settlement engine (net balances and payment plan) of      *)
(* src/unnamed/part_003, with the two older implementations of             *)
(* src/src/app/actions.ts and src/unnamed/part_002, over the requests      *)
(* table of one group.                                                     *)
(*                                                                         *)
(* Money is counted in mils (thousandths of a currency unit), so 0.01 is   *)
(* 10 and 0.005 is 5. Every balance the code stores went through           *)
(* Number(x.toFixed(2)) and is a whole number of cents (a multiple of 10)  *)
(* or NaN.                                                                 *)
(***************************************************************************)
EXTENDS Integers, Sequences, FiniteSets, TLC

\* ------------------------------------------------------------------------
\* Bounds of the model
\* ------------------------------------------------------------------------

\* Largest number of rows of the requests table.
MaxReqs == 3

\* ------------------------------------------------------------------------
\* Numbers
\* ------------------------------------------------------------------------

\* The value NaN of Number(request.amount); never equal to a modelled amount.
NaN == 999999

\* const epsilon = 0.01, in mils.
epsilon == 10

Abs(x) == IF x < 0 THEN 0 - x ELSE x

Min(x, y) == IF x <= y THEN x ELSE y

\* Whole-cent balances b (in mils) for which the IEEE-754 double b/1000 + 0.005
\* lies above the decimal midpoint, so that toFixed(2) rounds it up to b + 10;
\* for every other whole-cent b with |b| <= 60 the sum lies below the midpoint
\* and toFixed(2) gives b back. (0.005.toFixed(2) is "0.01", but
\* (0.01 + 0.005).toFixed(2) is "0.01" as well.) toFixed treats the sign
\* separately, so b/1000 - 0.005 is the mirror image.
HalfCentUp == {-30, -20, 0, 20, 50, 60}

\* The sum without toFixed(2).
AddUnrounded(bal, amt) == IF bal = NaN \/ amt = NaN THEN NaN ELSE bal + amt

\* Number((bal + amt).toFixed(2)) for a whole-cent balance bal.
AddFixed2(bal, amt) ==
    IF bal = NaN \/ amt = NaN THEN NaN
    ELSE LET s == bal + amt
             m == s % 10
         IN  IF m = 0 THEN s
             ELSE IF m < 5 THEN s - m
             ELSE IF m > 5 THEN s - m + 10
             ELSE IF amt > 0
                  THEN (IF bal \in HalfCentUp THEN s + 5 ELSE s - 5)
                  ELSE (IF (0 - bal) \in HalfCentUp THEN s - 5 ELSE s + 5)

\* Pairs <<totalCredits, totalDebits>> one cent apart whose difference, computed
\* in IEEE-754 doubles, is 0.010000000000000002 and so exceeds epsilon
\* (0.04 - 0.03 > 0.01, while 0.02 - 0.01 = 0.01).
OneCentOver == {<<30, 40>>, <<40, 30>>, <<40, 50>>, <<50, 40>>}

\* The verification left out: no mismatch is ever reported.
MismatchIgnored(credits, debits) == FALSE

\* Math.abs(totalCredits - totalDebits) > epsilon
MismatchAbove(credits, debits) ==
    IF Abs(credits - debits) = epsilon
    THEN <<credits, debits>> \in OneCentOver
    ELSE Abs(credits - debits) > epsilon

\* ------------------------------------------------------------------------
\* Sequences
\* ------------------------------------------------------------------------

RECURSIVE Reverse(_)
Reverse(s) == IF s = <<>> THEN <<>> ELSE Append(Reverse(Tail(s)), Head(s))

RECURSIVE SumBalance(_)
SumBalance(s) == IF s = <<>> THEN 0 ELSE Head(s).balance + SumBalance(Tail(s))

\* Array.prototype.splice(i, 1), for a 1-based index.
RemoveAt(s, i) == SubSeq(s, 1, i - 1) \o SubSeq(s, i + 1, Len(s))

HasUser(bals, uid) == \E k \in 1..Len(bals) : bals[k].userId = uid

IndexOfUser(bals, uid) == CHOOSE k \in 1..Len(bals) : bals[k].userId = uid

\* a || b on strings: the empty string is falsy.
OrElse(a, b) == IF a = "" THEN b ELSE a

\* balances.has(uid) ? balances : balances.set(uid, {email, balance: 0});
\* a Map keeps its keys in insertion order.
EnsureUser(bals, uid, email) ==
    IF HasUser(bals, uid) THEN bals
    ELSE Append(bals, [userId |-> uid, userEmail |-> email, balance |-> 0])

\* entry.balance = Number((entry.balance + amt).toFixed(2))
Credit(bals, uid, amt) ==
    IF HasUser(bals, uid)
    THEN LET k == IndexOfUser(bals, uid)
         IN  [bals EXCEPT ![k].balance = AddFixed2(bals[k].balance, amt)]
    ELSE bals

\* The stable sort of Array.prototype.sort((a, b) => b.balance - a.balance):
\* descending by balance, equal balances keep their order.
RECURSIVE InsertDesc(_, _)
InsertDesc(sorted, x) ==
    IF sorted = <<>> THEN <<x>>
    ELSE IF Head(sorted).balance >= x.balance
         THEN <<Head(sorted)>> \o InsertDesc(Tail(sorted), x)
         ELSE <<x>> \o sorted

RECURSIVE SortDesc(_)
SortDesc(s) ==
    IF s = <<>> THEN <<>>
    ELSE InsertDesc(SortDesc(SubSeq(s, 1, Len(s) - 1)), s[Len(s)])

\* The stable sort of sort((a, b) => a.balance - b.balance): ascending.
RECURSIVE InsertAsc(_, _)
InsertAsc(sorted, x) ==
    IF sorted = <<>> THEN <<x>>
    ELSE IF Head(sorted).balance <= x.balance
         THEN <<Head(sorted)>> \o InsertAsc(Tail(sorted), x)
         ELSE <<x>> \o sorted

RECURSIVE SortAsc(_)
SortAsc(s) ==
    IF s = <<>> THEN <<>>
    ELSE InsertAsc(SortAsc(SubSeq(s, 1, Len(s) - 1)), s[Len(s)])

\* ------------------------------------------------------------------------
\* calculateNetBalances, part_003. reqs is what getGroupRequests returned.
\* ------------------------------------------------------------------------

\* First forEach: every user of a pending request gets a zero balance.
RECURSIVE InitBalances3(_, _)
InitBalances3(reqs, bals) ==
    IF reqs = <<>> THEN bals
    ELSE LET r == Head(reqs)
         IN  IF r.status = "pending"
             THEN InitBalances3(Tail(reqs),
                      EnsureUser(
                          EnsureUser(bals, r.created_by,
                                     OrElse(r.created_by_email, r.created_by)),
                          r.to_id, OrElse(r.to_email, r.to_id)))
             ELSE InitBalances3(Tail(reqs), bals)

\* The second forEach with the recipient's update left out.
ApplyRequest3CreditOnly(bals, r) ==
    IF r.status # "pending" THEN bals
    ELSE IF r.amount = NaN \/ r.amount <= 0 THEN bals
    ELSE IF r.created_by = r.to_id THEN bals
    ELSE Credit(bals, r.created_by, r.amount)

\* The second forEach without the skip of self-requests.
ApplyRequest3WithSelf(bals, r) ==
    IF r.status # "pending" THEN bals
    ELSE IF r.amount = NaN \/ r.amount <= 0 THEN bals
    ELSE Credit(Credit(bals, r.created_by, r.amount), r.to_id, 0 - r.amount)

\* The second forEach with isNaN(amount) as its only check of the amount.
ApplyRequest3AnySign(bals, r) ==
    IF r.status # "pending" THEN bals
    ELSE IF r.amount = NaN THEN bals
    ELSE IF r.created_by = r.to_id THEN bals
    ELSE Credit(Credit(bals, r.created_by, r.amount), r.to_id, 0 - r.amount)

\* The second forEach with the two updates exchanged: the recipient is owed.
ApplyRequest3Swapped(bals, r) ==
    IF r.status # "pending" THEN bals
    ELSE IF r.amount = NaN \/ r.amount <= 0 THEN bals
    ELSE IF r.created_by = r.to_id THEN bals
    ELSE Credit(Credit(bals, r.to_id, r.amount), r.created_by, 0 - r.amount)

\* The body of the second forEach for one request.
ApplyRequest3(bals, r) ==
    IF r.status # "pending" THEN bals
    ELSE IF r.amount = NaN \/ r.amount <= 0 THEN bals
    ELSE IF r.created_by = r.to_id THEN bals
    ELSE IF HasUser(bals, r.created_by) /\ HasUser(bals, r.to_id)
         THEN Credit(Credit(bals, r.created_by, r.amount), r.to_id, 0 - r.amount)
         ELSE bals

RECURSIVE Accumulate3(_, _)
Accumulate3(reqs, bals) ==
    IF reqs = <<>> THEN bals
    ELSE Accumulate3(Tail(reqs), ApplyRequest3(bals, Head(reqs)))

\* .filter(user => Math.abs(user.balance) >= epsilon)
RECURSIVE FilterEpsilon3(_)
FilterEpsilon3(bals) ==
    IF bals = <<>> THEN <<>>
    ELSE IF Abs(Head(bals).balance) >= epsilon
         THEN <<Head(bals)>> \o FilterEpsilon3(Tail(bals))
         ELSE FilterEpsilon3(Tail(bals))

RECURSIVE TotalCredits(_)
TotalCredits(bals) ==
    IF bals = <<>> THEN 0
    ELSE (IF Head(bals).balance > 0 THEN Head(bals).balance ELSE 0)
         + TotalCredits(Tail(bals))

RECURSIVE TotalDebits(_)
TotalDebits(bals) ==
    IF bals = <<>> THEN 0
    ELSE (IF Head(bals).balance < 0 THEN 0 - Head(bals).balance ELSE 0)
         + TotalDebits(Tail(bals))

\* The retained balances before the credits/debits verification.
Retained3(reqs) ==
    FilterEpsilon3(Accumulate3(reqs, InitBalances3(reqs, <<>>)))

calculateNetBalances3(reqs) ==
    IF reqs = <<>> THEN <<>>
    ELSE LET result == Retained3(reqs)
         IN  IF MismatchAbove(TotalCredits(result), TotalDebits(result))
             THEN <<>>
             ELSE result

\* ------------------------------------------------------------------------
\* getOptimizedSettlements, part_003: the planner.
\* ------------------------------------------------------------------------

\* The filter on the sign left out of the debtors: every user is a debtor.
RECURSIVE Debtors3Any(_)
Debtors3Any(bals) ==
    IF bals = <<>> THEN <<>>
    ELSE <<[Head(bals) EXCEPT !.balance = Abs(Head(bals).balance)]>>
         \o Debtors3Any(Tail(bals))

RECURSIVE Debtors3(_)
Debtors3(bals) ==
    IF bals = <<>> THEN <<>>
    ELSE IF Head(bals).balance < 0
         THEN <<[Head(bals) EXCEPT !.balance = Abs(Head(bals).balance)]>>
              \o Debtors3(Tail(bals))
         ELSE Debtors3(Tail(bals))

RECURSIVE Creditors3(_)
Creditors3(bals) ==
    IF bals = <<>> THEN <<>>
    ELSE IF Head(bals).balance > 0
         THEN <<Head(bals)>> \o Creditors3(Tail(bals))
         ELSE Creditors3(Tail(bals))

\* The pair the two nested for loops settle: not the same user, and a transfer
\* of at least epsilon.
ValidPair3(ds, cs, i, j) ==
    /\ ds[i].userId # cs[j].userId
    /\ Min(ds[i].balance, cs[j].balance) >= epsilon

HasValidPair3(ds, cs) ==
    \E i \in 1..Len(ds) : \E j \in 1..Len(cs) : ValidPair3(ds, cs, i, j)

\* The last pair of the scan instead of the first.
LastPair3(ds, cs) == <<Len(ds), Len(cs)>>

\* The first valid pair in the order of the scan (i outer, j inner).
FirstPair3(ds, cs) ==
    CHOOSE p \in (1..Len(ds)) \X (1..Len(cs)) :
        /\ ValidPair3(ds, cs, p[1], p[2])
        /\ \A q \in (1..Len(ds)) \X (1..Len(cs)) :
               ValidPair3(ds, cs, q[1], q[2]) =>
                   \/ p[1] < q[1]
                   \/ (p[1] = q[1] /\ p[2] <= q[2])

\* The loop body with the two splices left out.
LoopBody3NoSplice(ds0, cs0) ==
    LET ds == SortDesc(ds0)
        cs == SortDesc(cs0)
        p == FirstPair3(ds, cs)
        transferAmount == Min(ds[p[1]].balance, cs[p[2]].balance)
    IN  [settlement |-> [from |-> [id |-> ds[p[1]].userId,
                                   email |-> ds[p[1]].userEmail],
                         to |-> [id |-> cs[p[2]].userId,
                                 email |-> cs[p[2]].userEmail],
                         amount |-> AddFixed2(transferAmount, 0)],
         debtors |-> [ds EXCEPT ![p[1]].balance = AddFixed2(@, 0 - transferAmount)],
         creditors |-> [cs EXCEPT ![p[2]].balance = AddFixed2(@, 0 - transferAmount)]]

\* One iteration of the while loop that makes a settlement: the two sorts, the
\* settlement pushed, the two balances updated, the settled users spliced out.
LoopBody3(ds0, cs0) ==
    LET ds == SortDesc(ds0)
        cs == SortDesc(cs0)
        p == FirstPair3(ds, cs)
        i == p[1]
        j == p[2]
        transferAmount == Min(ds[i].balance, cs[j].balance)
        dbal == AddFixed2(ds[i].balance, 0 - transferAmount)
        cbal == AddFixed2(cs[j].balance, 0 - transferAmount)
        ds1 == [ds EXCEPT ![i].balance = dbal]
        cs1 == [cs EXCEPT ![j].balance = cbal]
    IN  [settlement |-> [from |-> [id |-> ds[i].userId, email |-> ds[i].userEmail],
                         to |-> [id |-> cs[j].userId, email |-> cs[j].userEmail],
                         amount |-> AddFixed2(transferAmount, 0)],
         debtors |-> IF dbal < epsilon THEN RemoveAt(ds1, i) ELSE ds1,
         creditors |-> IF cbal < epsilon THEN RemoveAt(cs1, j) ELSE cs1]

\* Final validation: s.from.email !== s.to.email && s.amount >= epsilon
RECURSIVE ValidSettlements3(_)
ValidSettlements3(ss) ==
    IF ss = <<>> THEN <<>>
    ELSE IF Head(ss).from.email # Head(ss).to.email /\ Head(ss).amount >= epsilon
         THEN <<Head(ss)>> \o ValidSettlements3(Tail(ss))
         ELSE ValidSettlements3(Tail(ss))

\* The whole while loop: the settlements pushed when it ends.
RECURSIVE Loop3(_, _, _)
Loop3(ds, cs, ss) ==
    IF ds = <<>> \/ cs = <<>> THEN ss
    ELSE IF HasValidPair3(SortDesc(ds), SortDesc(cs))
         THEN LET b == LoopBody3(ds, cs)
              IN  Loop3(b.debtors, b.creditors, Append(ss, b.settlement))
         ELSE ss

\* The plan getOptimizedSettlements returns when calculateNetBalances read reqs.
getOptimizedSettlements3(reqs) ==
    LET bals == calculateNetBalances3(reqs)
    IN  ValidSettlements3(Loop3(Debtors3(bals), Creditors3(bals), <<>>))

\* requests.filter(req => req.status === 'pending')
RECURSIVE PendingOf(_)
PendingOf(reqs) ==
    IF reqs = <<>> THEN <<>>
    ELSE IF Head(reqs).status = "pending"
         THEN <<Head(reqs)>> \o PendingOf(Tail(reqs))
         ELSE PendingOf(Tail(reqs))

\* ------------------------------------------------------------------------
\* calculateNetBalances, actions.ts and part_002 (the same code, but actions.ts
\* sorts the result).
\* ------------------------------------------------------------------------

\* First pass: every user of every request, pending or not, gets a zero balance.
RECURSIVE InitBalances1(_, _)
InitBalances1(reqs, bals) ==
    IF reqs = <<>> THEN bals
    ELSE LET r == Head(reqs)
         IN  InitBalances1(Tail(reqs),
                 EnsureUser(
                     EnsureUser(bals, r.created_by,
                                OrElse(r.created_by_email, r.created_by)),
                     r.to_id, OrElse(r.to_email, r.to_id)))

\* Second pass, one request: no check of the amount, none of a self-request.
ApplyRequest1(bals, r) ==
    IF r.status # "pending" THEN bals
    ELSE Credit(Credit(bals, r.created_by, r.amount), r.to_id,
                IF r.amount = NaN THEN NaN ELSE 0 - r.amount)

RECURSIVE Accumulate1(_, _)
Accumulate1(reqs, bals) ==
    IF reqs = <<>> THEN bals
    ELSE Accumulate1(Tail(reqs), ApplyRequest1(bals, Head(reqs)))

\* .filter(user => Math.abs(user.balance) > 0.01); Math.abs(NaN) > 0.01 is false.
RECURSIVE FilterEpsilon1(_)
FilterEpsilon1(bals) ==
    IF bals = <<>> THEN <<>>
    ELSE IF Head(bals).balance # NaN /\ Abs(Head(bals).balance) > epsilon
         THEN <<Head(bals)>> \o FilterEpsilon1(Tail(bals))
         ELSE FilterEpsilon1(Tail(bals))

calculateNetBalances2(reqs) ==
    IF reqs = <<>> THEN <<>>
    ELSE FilterEpsilon1(Accumulate1(reqs, InitBalances1(reqs, <<>>)))

calculateNetBalances1(reqs) == SortDesc(calculateNetBalances2(reqs))

\* ------------------------------------------------------------------------
\* getOptimizedSettlements, actions.ts: every debtor walks the creditors.
\* ------------------------------------------------------------------------

RECURSIVE Debtors1(_)
Debtors1(bals) ==
    IF bals = <<>> THEN <<>>
    ELSE IF Head(bals).balance < 0
         THEN <<Head(bals)>> \o Debtors1(Tail(bals))
         ELSE Debtors1(Tail(bals))

RECURSIVE Creditors1(_)
Creditors1(bals) ==
    IF bals = <<>> THEN <<>>
    ELSE IF Head(bals).balance > 0
         THEN <<Head(bals)>> \o Creditors1(Tail(bals))
         ELSE Creditors1(Tail(bals))

\* The transaction with the debtor written on both sides.
TransactionToDebtor(debtor, creditor, amount) ==
    [from |-> [id |-> debtor.userId, email |-> debtor.userEmail],
     to |-> [id |-> debtor.userId, email |-> debtor.userEmail],
     amount |-> AddFixed2(amount, 0)]

\* transactions.push({from: debtor, to: creditor, amount: Number(amount.toFixed(2))})
Transaction(debtor, creditor, amount) ==
    [from |-> [id |-> debtor.userId, email |-> debtor.userEmail],
     to |-> [id |-> creditor.userId, email |-> creditor.userEmail],
     amount |-> AddFixed2(amount, 0)]

\* The inner for loop from creditor j on; st carries the creditors and the
\* transactions.
RECURSIVE PayCreditors1(_, _, _, _)
PayCreditors1(debtor, remainingDebt, j, st) ==
    IF j > Len(st.creditors) THEN st
    ELSE IF remainingDebt <= epsilon THEN st
    ELSE IF st.creditors[j].balance <= epsilon
         THEN PayCreditors1(debtor, remainingDebt, j + 1, st)
    ELSE IF debtor.userId = st.creditors[j].userId
         THEN PayCreditors1(debtor, remainingDebt, j + 1, st)
    ELSE LET amount == Min(remainingDebt, st.creditors[j].balance)
         IN  IF amount > epsilon
             THEN PayCreditors1(debtor, AddFixed2(remainingDebt, 0 - amount), j + 1,
                      [creditors |->
                           [st.creditors EXCEPT
                                ![j].balance = AddFixed2(@, 0 - amount)],
                       transactions |->
                           Append(st.transactions,
                                  Transaction(debtor, st.creditors[j], amount))])
             ELSE PayCreditors1(debtor, remainingDebt, j + 1, st)

RECURSIVE PayDebtors1(_, _)
PayDebtors1(debtors, st) ==
    IF debtors = <<>> THEN st
    ELSE PayDebtors1(Tail(debtors),
             PayCreditors1(Head(debtors), Abs(Head(debtors).balance), 1, st))

getOptimizedSettlements1(reqs) ==
    LET balances == calculateNetBalances1(reqs)
    IN  IF balances = <<>> THEN <<>>
        ELSE PayDebtors1(Debtors1(balances),
                 [creditors |-> Creditors1(balances),
                  transactions |-> <<>>]).transactions

\* ------------------------------------------------------------------------
\* getOptimizedSettlements, part_002: two indices over the sorted lists.
\* ------------------------------------------------------------------------

RECURSIVE TwoPointer2(_, _, _, _, _)
TwoPointer2(ds, cs, debtorIndex, creditorIndex, transactions) ==
    IF ~(debtorIndex <= Len(ds) /\ creditorIndex <= Len(cs)) THEN transactions
    ELSE LET debtor == ds[debtorIndex]
             creditor == cs[creditorIndex]
             amount == Min(Abs(debtor.balance), creditor.balance)
             dbal == AddFixed2(debtor.balance, amount)
             cbal == AddFixed2(creditor.balance, 0 - amount)
         IN  IF amount > epsilon
             THEN TwoPointer2([ds EXCEPT ![debtorIndex].balance = dbal],
                              [cs EXCEPT ![creditorIndex].balance = cbal],
                              IF Abs(dbal) < epsilon
                                  THEN debtorIndex + 1 ELSE debtorIndex,
                              IF Abs(cbal) < epsilon
                                  THEN creditorIndex + 1 ELSE creditorIndex,
                              Append(transactions,
                                     Transaction(debtor, creditor, amount)))
             ELSE TwoPointer2(ds, cs, debtorIndex + 1, creditorIndex + 1,
                              transactions)

getOptimizedSettlements2(reqs) ==
    LET balances == calculateNetBalances2(reqs)
        debtors == SortAsc(Debtors1(balances))
        creditors == SortDesc(Creditors1(balances))
    IN  IF balances = <<>> THEN <<>>
        ELSE IF debtors = <<>> \/ creditors = <<>> THEN <<>>
        ELSE TwoPointer2(debtors, creditors, 1, 1, <<>>)

\* ------------------------------------------------------------------------
\* The requests table and the inputs of the model
\* ------------------------------------------------------------------------

\* The signed-in users (their Clerk ids) and their e-mail addresses.
UserEmail == [a |-> "a@x", b |-> "b@x", c |-> "c@x", d |-> "d@x"]

Users == DOMAIN UserEmail

\* The rows of group_members, as <<user_id, user_email>>: a member added by
\* addGroupMember carries the e-mail address as a temporary user_id until
\* updateMemberUserId replaces it, so "b@x" is b before the first login.
Members == {<<u, UserEmail[u]>> : u \in Users} \cup {<<"b@x", "b@x">>}

\* A row of the requests table as addRequest inserts it.
NewRequest(creator, member, amount) ==
    [id |-> 0,
     amount |-> amount,
     created_by |-> creator,
     created_by_email |-> UserEmail[creator],
     to_id |-> member[1],
     to_email |-> member[2],
     status |-> "pending",
     settled_by |-> ""]

\* The row after markRequestAsSettled(id, settledBy).
Settled(r, settledBy) == [r EXCEPT !.status = "settled", !.settled_by = settledBy]

\* The rows addRequest can insert for the given creators, members and amounts.
Rows(creators, members, amounts) ==
    {NewRequest(u, m, amt) : u \in creators, m \in members, amt \in amounts}

MembersOf(users) == {<<u, UserEmail[u]>> : u \in users}

\* Requests between two different users among three for whole cents.
LedgerRows ==
    {r \in Rows({"a", "b", "c"}, MembersOf({"a", "b", "c"}), {10, 20}) :
         r.created_by # r.to_id}

\* Requests of two creditors to two debtors for two cents, pending or already
\* marked settled by the debtor (handleMarkAsSettled).
HistoryRows ==
    LET pend == Rows({"a", "c"}, MembersOf({"b", "d"}), {20})
    IN  pend \cup {Settled(r, r.to_id) : r \in pend}

\* Requests for half a cent or one cent, also to the member b under the
\* temporary id, and to oneself.
HalfCentRows ==
    Rows({"a", "b"}, MembersOf({"a", "b", "c"}) \cup {<<"b@x", "b@x">>}, {5, 10})

\* Requests addRequest does not refuse: to oneself, or for an amount that is
\* not a number, zero or negative.
UncheckedRows ==
    {r \in Rows({"a", "b"}, MembersOf({"a", "b"}), {NaN, 0, -10, 10}) :
         r.created_by = "a" \/ r.to_id = "a"}

\* Requests for thirty currency units between two different users among three.
ScenarioRows ==
    {r \in Rows({"a", "b", "c"}, MembersOf({"a", "b", "c"}), {30000}) :
         r.created_by # r.to_id}

\* The tables of at most MaxReqs rows drawn from rows; the id is the position.
Tables(rows) ==
    UNION {{[i \in 1..n |-> [t[i] EXCEPT !.id = i]] : t \in [1..n -> rows]} :
               n \in 0..MaxReqs}

VARIABLES
    requests,     \* the requests table of the group, oldest row first
    pc,           \* where the server action in progress stands
    snap,         \* the rows calculateNetBalances read
    balances,     \* what calculateNetBalances returned
    debtors,      \* the planner's working lists
    creditors,
    settlements,
    pending,      \* the rows still to be marked settled by the fallback
    ret,          \* the value the server action returned
    lastRet,      \* the value the previous getOptimizedSettlements returned
    completion,   \* the call of markSettlementAsCompleted in progress
    groups,       \* the ids of the rows of the groups table
    group_members,\* the group_members table, oldest row first
    calls,        \* the calls of addGroupMember and deleteGroup in progress
    page,         \* the state of the group page (group/[id]/page.tsx)
    form          \* the state of the request form (expense/page.tsx)

\* What the settlement engine leaves alone.
app == <<groups, group_members, calls, page, form>>

vars == <<requests, pc, snap, balances, debtors, creditors, settlements,
          pending, ret, lastRet, completion, app>>

NoRet == [seen |-> FALSE, plan |-> <<>>]

\* let remainingAmount = amount: the amount in mils and the sign of what the
\* double differs by from the double nearest to that amount.
Remaining0(amount) == [mils |-> amount, drift |-> 0]

\* No call of markSettlementAsCompleted yet.
NoCompletion ==
    [plan |-> <<>>, confirmed |-> {}, fromId |-> "", toId |-> "", amount |-> 0,
     remainingAmount |-> Remaining0(0), table |-> <<>>]

\* getGroupRequests: ORDER BY created_at DESC.
getGroupRequests == Reverse(requests)

\* The bound on the calls of server actions in progress at once.
MaxCalls == 2

\* No call in this slot.
NoCall ==
    [op |-> "none", pc |-> "none", groupId |-> "", userEmail |-> "",
     emails |-> <<>>, result |-> "", deleted |-> 0]

\* The group page before its first fetch.
NoPage == [pc |-> "unmounted", requests |-> <<>>, settlements |-> <<>>,
           last |-> ""]

\* No requestData passed to addRequest yet.
NoSent == [groupId |-> "", createdBy |-> "", amount |-> 0,
           requestTo |-> [id |-> "", email |-> ""]]

\* The request form before its first effect: the useState defaults.
NoForm == [pc |-> "unmounted", amount |-> "", group |-> "", requestTo |-> <<>>,
           members |-> <<>>, fetches |-> {}, sent |-> NoSent]

\* No server action in progress on the table.
EngineIdle(table) ==
    /\ requests = table
    /\ pc = "idle"
    /\ snap = <<>>
    /\ balances = <<>>
    /\ debtors = <<>>
    /\ creditors = <<>>
    /\ settlements = <<>>
    /\ pending = <<>>
    /\ ret = <<>>
    /\ lastRet = NoRet
    /\ completion = NoCompletion

Idle(table) ==
    /\ EngineIdle(table)
    /\ groups = {}
    /\ group_members = <<>>
    /\ calls = [c \in 1..MaxCalls |-> NoCall]
    /\ page = NoPage
    /\ form = NoForm

Inputs ==
    Tables(LedgerRows) \cup Tables(HistoryRows) \cup Tables(HalfCentRows)
        \cup Tables(UncheckedRows) \cup Tables(ScenarioRows)

Init == \E table \in Inputs : Idle(table)

\* ------------------------------------------------------------------------
\* getOptimizedSettlements of part_003, one action per await and per iteration
\* of the while loop.
\* ------------------------------------------------------------------------

\* const balances = await calculateNetBalances(groupId), and the partition into
\* debtors and creditors.
Calculate3 ==
    /\ pc = "idle"
    /\ LET reqs == getGroupRequests
           bals == calculateNetBalances3(reqs)
       IN  /\ snap' = reqs
           /\ balances' = bals
           /\ debtors' = Debtors3(bals)
           /\ creditors' = Creditors3(bals)
           /\ pc' = IF bals = <<>> THEN "read" ELSE "loop"
    /\ settlements' = <<>>
    /\ UNCHANGED <<requests, pending, ret, lastRet>>
    /\ UNCHANGED <<completion, app>>

\* One iteration of while (debtors.length > 0 && creditors.length > 0).
Iterate3 ==
    /\ pc = "loop"
    /\ debtors # <<>>
    /\ creditors # <<>>
    /\ IF HasValidPair3(SortDesc(debtors), SortDesc(creditors))
       THEN LET b == LoopBody3(debtors, creditors)
            IN  /\ settlements' = Append(settlements, b.settlement)
                /\ debtors' = b.debtors
                /\ creditors' = b.creditors
                /\ pc' = "loop"
       ELSE /\ debtors' = SortDesc(debtors)
            /\ creditors' = SortDesc(creditors)
            /\ settlements' = settlements
            /\ pc' = "validate"
    /\ UNCHANGED <<requests, snap, balances, pending, ret, lastRet>>
    /\ UNCHANGED <<completion, app>>

\* The loop condition fails.
ExitLoop3 ==
    /\ pc = "loop"
    /\ (debtors = <<>> \/ creditors = <<>>)
    /\ pc' = "validate"
    /\ UNCHANGED <<requests, snap, balances, debtors, creditors, settlements,
                   pending, ret, lastRet>>
    /\ UNCHANGED <<completion, app>>

\* The final validation followed by the fallback whatever the plan.
Validate3ThenMark ==
    /\ pc = "validate"
    /\ pc' = "read"
    /\ ret' = ret
    /\ UNCHANGED <<requests, snap, balances, debtors, creditors, settlements,
                   pending, lastRet>>
    /\ UNCHANGED <<completion, app>>

\* Final validation; a non-empty plan is returned.
Validate3 ==
    /\ pc = "validate"
    /\ LET valid == ValidSettlements3(settlements)
       IN  IF valid = <<>>
           THEN /\ pc' = "read"
                /\ ret' = ret
           ELSE /\ pc' = "done"
                /\ ret' = valid
    /\ UNCHANGED <<requests, snap, balances, debtors, creditors, settlements,
                   pending, lastRet>>
    /\ UNCHANGED <<completion, app>>

\* const { requests } = await getGroupRequests(groupId), filtered to pending.
ReadPending3 ==
    /\ pc = "read"
    /\ pending' = PendingOf(getGroupRequests)
    /\ pc' = "mark"
    /\ UNCHANGED <<requests, snap, balances, debtors, creditors, settlements,
                   ret, lastRet>>
    /\ UNCHANGED <<completion, app>>

\* The UPDATE fails and the error is swallowed: no row changes.
markRequestFails(table, requestId, settledBy) == table

\* UPDATE requests SET status = 'settled', settled_by = ... WHERE id = ...
markRequestAsSettled(table, requestId, settledBy) ==
    [i \in 1..Len(table) |->
        IF table[i].id = requestId THEN Settled(table[i], settledBy) ELSE table[i]]

\* await markRequestAsSettled(request.id, request.created_by) for the next row.
Mark3 ==
    /\ pc = "mark"
    /\ pending # <<>>
    /\ requests' = markRequestAsSettled(requests, Head(pending).id,
                                        Head(pending).created_by)
    /\ pending' = Tail(pending)
    /\ UNCHANGED <<pc, snap, balances, debtors, creditors, settlements, ret,
                   lastRet>>
    /\ UNCHANGED <<completion, app>>

\* Every pending row is marked: return [] of the first fallback, return
\* validSettlements of the second.
ReturnAfterMark3 ==
    /\ pc = "mark"
    /\ pending = <<>>
    /\ ret' = ValidSettlements3(settlements)
    /\ pc' = "done"
    /\ UNCHANGED <<requests, snap, balances, debtors, creditors, settlements,
                   pending, lastRet>>
    /\ UNCHANGED <<completion, app>>

\* The caller takes the returned plan.
Return3 ==
    /\ pc = "done"
    /\ lastRet' = [seen |-> TRUE, plan |-> ret]
    /\ pc' = "idle"
    /\ snap' = <<>>
    /\ balances' = <<>>
    /\ debtors' = <<>>
    /\ creditors' = <<>>
    /\ settlements' = <<>>
    /\ ret' = <<>>
    /\ UNCHANGED <<requests, pending>>
    /\ UNCHANGED <<completion, app>>

\* ------------------------------------------------------------------------
\* getOptimizedSettlements of actions.ts and of part_002: one read, then a pure
\* computation.
\* ------------------------------------------------------------------------

Plan1 ==
    /\ pc = "idle"
    /\ snap' = getGroupRequests
    /\ balances' = calculateNetBalances1(getGroupRequests)
    /\ ret' = getOptimizedSettlements1(getGroupRequests)
    /\ pc' = "done1"
    /\ lastRet' = NoRet
    /\ UNCHANGED <<requests, debtors, creditors, settlements, pending>>
    /\ UNCHANGED <<completion, app>>

Plan2 ==
    /\ pc = "idle"
    /\ snap' = getGroupRequests
    /\ balances' = calculateNetBalances2(getGroupRequests)
    /\ ret' = getOptimizedSettlements2(getGroupRequests)
    /\ pc' = "done2"
    /\ lastRet' = NoRet
    /\ UNCHANGED <<requests, debtors, creditors, settlements, pending>>
    /\ UNCHANGED <<completion, app>>

\* The caller takes the plan of actions.ts or part_002.
Return12 ==
    /\ pc \in {"done1", "done2"}
    /\ pc' = "idle"
    /\ snap' = <<>>
    /\ balances' = <<>>
    /\ ret' = <<>>
    /\ UNCHANGED <<requests, debtors, creditors, settlements, pending, lastRet>>
    /\ UNCHANGED <<completion, app>>

Next ==
    \/ Plan1
    \/ Plan2
    \/ Return12
    \/ Calculate3
    \/ Iterate3
    \/ ExitLoop3
    \/ Validate3
    \/ ReadPending3
    \/ Mark3
    \/ ReturnAfterMark3
    \/ Return3

Spec == Init /\ [][Next]_vars

\* ------------------------------------------------------------------------
\* markSettlementAsCompleted of actions.ts, one action per iteration of its
\* for loop, called for a settlement of the plan of actions.ts or directly.
\* ------------------------------------------------------------------------

\* Pairs <<x, y>> of whole-cent amounts, x > y, for which the difference of the
\* two doubles lies below the double nearest to x - y (0.03 - 0.01 is
\* 0.019999999999999997), and those for which it lies above it (0.04 - 0.03 is
\* 0.010000000000000002).
DiffBelow == {<<30, 10>>, <<30, 20>>, <<60, 10>>, <<60, 20>>, <<90, 20>>, <<120, 20>>}

DiffAbove == {<<40, 30>>, <<50, 20>>, <<50, 30>>, <<70, 10>>, <<70, 30>>, <<100, 10>>}

\* <<x, drift, y>> for which the difference of a double off the one nearest to
\* x and the double y is the double nearest to x - y again.
DriftCancels == {<<60, 1, 10>>, <<90, 1, 20>>, <<100, -1, 10>>}

\* remainingAmount <= 0
Exhausted(rem) ==
    /\ rem.mils # NaN
    /\ (rem.mils < 0 \/ (rem.mils = 0 /\ rem.drift <= 0))

\* settleAmount = Math.min(remainingAmount, request.amount);
\* remainingAmount -= settleAmount, in doubles.
Subtract(rem, amt) ==
    IF rem.mils = NaN \/ amt = NaN THEN [mils |-> NaN, drift |-> 0]
    ELSE IF amt > rem.mils \/ (amt = rem.mils /\ rem.drift <= 0)
         THEN [mils |-> 0, drift |-> 0]
    ELSE IF amt = rem.mils THEN [mils |-> 0, drift |-> 1]
    ELSE [mils |-> rem.mils - amt,
          drift |-> IF rem.drift = 0
                    THEN (IF <<rem.mils, amt>> \in DiffBelow THEN -1
                          ELSE IF <<rem.mils, amt>> \in DiffAbove THEN 1
                          ELSE 0)
                    ELSE IF <<rem.mils, rem.drift, amt>> \in DriftCancels THEN 0
                         ELSE rem.drift]

\* request.created_by === toId && request.request_to.id === fromId
Matches(request, fromId, toId) ==
    request.created_by = toId /\ request.to_id = fromId

\* The for loop over pendingRequests: the table when it ends.
RECURSIVE CompleteLoop(_, _, _, _, _)
CompleteLoop(table, pend, rem, fromId, toId) ==
    IF pend = <<>> \/ Exhausted(rem) THEN table
    ELSE IF Matches(Head(pend), fromId, toId)
         THEN CompleteLoop(markRequestAsSettled(table, Head(pend).id, fromId),
                           Tail(pend), Subtract(rem, Head(pend).amount),
                           fromId, toId)
         ELSE CompleteLoop(table, Tail(pend), rem, fromId, toId)

\* The table after markSettlementAsCompleted(groupId, fromId, toId, amount).
markSettlementAsCompleted(table, fromId, toId, amount) ==
    CompleteLoop(table, PendingOf(Reverse(table)), Remaining0(amount), fromId, toId)

\* Requests of a to b for one or three cents and of b to a for one cent.
PairRows ==
    Rows({"a"}, MembersOf({"b"}), {10, 30}) \cup Rows({"b"}, MembersOf({"a"}), {10})

WriteBackInputs ==
    Tables(LedgerRows) \cup Tables(HistoryRows) \cup Tables(ScenarioRows)
        \cup Tables(PairRows)

InitWriteBack == \E table \in WriteBackInputs : Idle(table)

\* The users and amounts of a direct call of the server action.
DirectUsers == {"a", "b"}

DirectAmounts == {-10, 10, 40}

\* The entry of markSettlementAsCompleted: getGroupRequests, pendingRequests,
\* remainingAmount.
BeginCompletion(plan, confirmed, fromId, toId, amount) ==
    /\ completion' = [plan |-> plan, confirmed |-> confirmed, fromId |-> fromId,
                      toId |-> toId, amount |-> amount,
                      remainingAmount |-> Remaining0(amount), table |-> requests]
    /\ pending' = PendingOf(getGroupRequests)
    /\ pc' = "complete"
    /\ UNCHANGED <<requests, snap, balances, debtors, creditors, settlements,
                   ret, lastRet, app>>

\* A user confirms a settlement of the plan not confirmed yet.
ConfirmSettlement ==
    /\ pc \in {"done1", "completed"}
    /\ LET plan == IF pc = "done1" THEN ret ELSE completion.plan
           confirmed == IF pc = "done1" THEN {} ELSE completion.confirmed
       IN  \E k \in (1..Len(plan)) \ confirmed :
               BeginCompletion(plan, confirmed \cup {k}, plan[k].from.id,
                               plan[k].to.id, plan[k].amount)

\* The server action called with arguments of the caller's choice.
CompleteDirect ==
    /\ pc = "idle"
    /\ \E fromId \in DirectUsers, toId \in DirectUsers, amount \in DirectAmounts :
           BeginCompletion(<<>>, {}, fromId, toId, amount)

\* One iteration of for (const request of pendingRequests).
CompleteStep ==
    /\ pc = "complete"
    /\ pending # <<>>
    /\ ~Exhausted(completion.remainingAmount)
    /\ IF Matches(Head(pending), completion.fromId, completion.toId)
       THEN /\ requests' = markRequestAsSettled(requests, Head(pending).id,
                                                completion.fromId)
            /\ completion' =
                   [completion EXCEPT !.remainingAmount =
                        Subtract(@, Head(pending).amount)]
       ELSE UNCHANGED <<requests, completion>>
    /\ pending' = Tail(pending)
    /\ UNCHANGED <<pc, snap, balances, debtors, creditors, settlements, ret,
                   lastRet, app>>

\* The loop ends or breaks: return { success: true }.
CompleteReturn ==
    /\ pc = "complete"
    /\ (pending = <<>> \/ Exhausted(completion.remainingAmount))
    /\ pc' = "completed"
    /\ UNCHANGED <<requests, snap, balances, debtors, creditors, settlements,
                   pending, ret, lastRet, completion, app>>

NextWriteBack ==
    \/ Plan1
    \/ ConfirmSettlement
    \/ CompleteDirect
    \/ CompleteStep
    \/ CompleteReturn

SpecWriteBack == InitWriteBack /\ [][NextWriteBack]_vars

\* ------------------------------------------------------------------------
\* getOptimizedSettlements of part_003 when a read of the requests table
\* fails: getGroupRequests catches the error and returns { requests: [] }.
\* ------------------------------------------------------------------------

\* What getGroupRequests returns from its catch block.
getGroupRequestsFailed == <<>>

\* const balances = await calculateNetBalances(groupId) when the SELECT of
\* getGroupRequests throws: calculateNetBalances returns [] for the empty list
\* and getOptimizedSettlements enters its first fallback.
CalculateReadFails3 ==
    /\ pc = "idle"
    /\ LET reqs == getGroupRequestsFailed
           bals == calculateNetBalances3(reqs)
       IN  /\ snap' = reqs
           /\ balances' = bals
           /\ debtors' = Debtors3(bals)
           /\ creditors' = Creditors3(bals)
           /\ pc' = IF bals = <<>> THEN "read" ELSE "loop"
    /\ settlements' = <<>>
    /\ UNCHANGED <<requests, pending, ret, lastRet>>
    /\ UNCHANGED <<completion, app>>

\* The read of a fallback fails: there is nothing to mark.
ReadPendingFails3 ==
    /\ pc = "read"
    /\ pending' = PendingOf(getGroupRequestsFailed)
    /\ pc' = "mark"
    /\ UNCHANGED <<requests, snap, balances, debtors, creditors, settlements,
                   ret, lastRet>>
    /\ UNCHANGED <<completion, app>>

NextFailedRead ==
    \/ Calculate3
    \/ CalculateReadFails3
    \/ Iterate3
    \/ ExitLoop3
    \/ Validate3
    \/ ReadPending3
    \/ ReadPendingFails3
    \/ Mark3
    \/ ReturnAfterMark3
    \/ Return3

SpecFailedRead == Init /\ [][NextFailedRead]_vars

\* ------------------------------------------------------------------------
\* getOptimizedSettlements of part_003 while other invocations of addRequest
\* insert rows into the same group.
\* ------------------------------------------------------------------------

\* INSERT INTO requests (...) VALUES (...) RETURNING id: the row is appended
\* as it is given, with the next id.
addRequest(table, row) == Append(table, [row EXCEPT !.id = Len(table) + 1])

\* The requests other invocations insert: a asks b or c for one cent.
InsertedRows == {r \in LedgerRows : r.created_by = "a" /\ r.amount = 10}

\* Another invocation inserts a request, at any point of the call in progress.
AddRequest ==
    /\ Len(requests) < MaxReqs
    /\ \E row \in InsertedRows : requests' = addRequest(requests, row)
    /\ UNCHANGED <<pc, snap, balances, debtors, creditors, settlements,
                   pending, ret, lastRet>>
    /\ UNCHANGED <<completion, app>>

InitInterleaved == \E table \in Tables(LedgerRows) : Idle(table)

NextInterleaved ==
    \/ AddRequest
    \/ Calculate3
    \/ Iterate3
    \/ ExitLoop3
    \/ Validate3
    \/ ReadPending3
    \/ Mark3
    \/ ReturnAfterMark3
    \/ Return3

SpecInterleaved == InitInterleaved /\ [][NextInterleaved]_vars

\* ------------------------------------------------------------------------
\* createGroup and addGroupMember of actions.ts and handleCreateGroup of
\* group/page.tsx, one action per SQL statement.
\* ------------------------------------------------------------------------

\* The state of the settlement engine, which these server actions leave alone.
engine == <<pc, snap, balances, debtors, creditors, settlements, pending, ret,
            lastRet, completion>>

\* The ids the groups table hands out.
GroupIds == {"g1", "g2"}

\* The e-mail addresses typed into the member field of the group form.
Emails == {"a@x", "b@x"}

\* memberEmails of the group form: handleAddMember refuses an address already
\* in the list.
MemberEmails ==
    {<<>>, <<"a@x">>, <<"b@x">>, <<"a@x", "b@x">>, <<"b@x", "a@x">>}

\* The bound on the rows of group_members at the start of a call.
MaxMemberRows == 3

\* A row of group_members.
MemberRow(groupId, userId, userEmail, role) ==
    [group_id |-> groupId, user_id |-> userId, user_email |-> userEmail,
     role |-> role]

\* SELECT 1 FROM group_members WHERE group_id = ... AND user_email = ...
existingMember(table, groupId, userEmail) ==
    SelectSeq(table, LAMBDA r : r.group_id = groupId /\ r.user_email = userEmail)

\* The rows of group_members of a group.
RowsOfGroup(table, groupId) == SelectSeq(table, LAMBDA r : r.group_id = groupId)

\* addGroupMember has returned r: handleCreateGroup goes on with the next
\* address of memberEmails, a direct call is over.
Continue(call, r) ==
    IF call.emails # <<>>
    THEN [call EXCEPT !.pc = "select", !.userEmail = Head(call.emails),
                      !.emails = Tail(call.emails), !.result = r]
    ELSE [call EXCEPT !.pc = "returned", !.result = r]

\* createGroup: one statement inserts the group and its creator as admin.
createGroup(groupId, creatorId, creatorEmail) ==
    /\ groups' = groups \cup {groupId}
    /\ group_members' =
           Append(group_members, MemberRow(groupId, creatorId, creatorEmail, "admin"))

\* handleCreateGroup: createGroup, then addGroupMember for every address of
\* memberEmails in turn; a failed createGroup ends the handler.
HandleCreateGroup(c) ==
    /\ calls[c].op = "none"
    /\ groups # GroupIds
    /\ Len(group_members) < MaxMemberRows
    /\ \E emails \in MemberEmails :
           LET g == CHOOSE id \in GroupIds \ groups : TRUE
               call == [NoCall EXCEPT !.op = "handleCreateGroup", !.groupId = g,
                                      !.emails = emails]
           IN  \/ /\ createGroup(g, "a", UserEmail["a"])
                  /\ calls' = [calls EXCEPT ![c] = Continue(call, "")]
               \/ /\ calls' = [calls EXCEPT ![c] =
                                  [call EXCEPT !.groupId = "", !.emails = <<>>,
                                               !.pc = "returned",
                                               !.result = "error"]]
                  /\ UNCHANGED <<groups, group_members>>
    /\ UNCHANGED <<requests, engine, page, form>>

\* addGroupMember called for an existing group.
AddGroupMemberCall(c) ==
    /\ calls[c].op = "none"
    /\ Len(group_members) < MaxMemberRows
    /\ \E g \in groups, email \in Emails :
           calls' = [calls EXCEPT ![c] =
                        [NoCall EXCEPT !.op = "addGroupMember", !.pc = "select",
                                       !.groupId = g, !.userEmail = email]]
    /\ UNCHANGED <<requests, engine, groups, group_members, page, form>>

\* The check of addGroupMember: with a row found it returns
\* { success: true, message: 'User is already a member' }.
SelectExisting(c) ==
    /\ calls[c].pc = "select"
    /\ calls' = [calls EXCEPT ![c] =
           IF existingMember(group_members, calls[c].groupId, calls[c].userEmail) # <<>>
           THEN Continue(calls[c], "already a member")
           ELSE [calls[c] EXCEPT !.pc = "insert"]]
    /\ UNCHANGED <<requests, engine, groups, group_members, page, form>>

\* The INSERT of addGroupMember: the address is also the temporary user_id.
insertMemberRow(table, groupId, userEmail) ==
    Append(table, MemberRow(groupId, userEmail, userEmail, "member"))

\* INSERT INTO group_members ... with the address as temporary user_id.
InsertMember(c) ==
    /\ calls[c].pc = "insert"
    /\ group_members' =
           insertMemberRow(group_members, calls[c].groupId, calls[c].userEmail)
    /\ calls' = [calls EXCEPT ![c] = Continue(calls[c], "success")]
    /\ UNCHANGED <<requests, engine, groups, page, form>>

\* A statement of addGroupMember throws: the catch returns success: false.
MemberStatementFails(c) ==
    /\ calls[c].pc \in {"select", "insert"}
    /\ calls' = [calls EXCEPT ![c] = Continue(calls[c], "error")]
    /\ UNCHANGED <<requests, engine, groups, group_members, page, form>>

\* The caller has the result; the slot is free again.
CallOver(c) ==
    /\ calls[c].pc = "returned"
    /\ calls' = [calls EXCEPT ![c] = NoCall]
    /\ UNCHANGED <<requests, engine, groups, group_members, page, form>>

InitMembers ==
    /\ EngineIdle(<<>>)
    /\ groups = {}
    /\ group_members = <<>>
    /\ calls = [c \in 1..MaxCalls |-> NoCall]
    /\ page = NoPage
    /\ form = NoForm

NextMembers ==
    \E c \in 1..MaxCalls :
        \/ HandleCreateGroup(c)
        \/ AddGroupMemberCall(c)
        \/ SelectExisting(c)
        \/ InsertMember(c)
        \/ MemberStatementFails(c)
        \/ CallOver(c)

SpecMembers == InitMembers /\ [][NextMembers]_vars

\* ------------------------------------------------------------------------
\* deleteGroup of actions.ts on the group g1, whose requests are the table
\* requests, one action per DELETE statement, while addRequest and
\* addGroupMember run for the same group.
\* ------------------------------------------------------------------------

\* The requests of the group before it is deleted: a asks b for one or two cents.
DeleteRows == Rows({"a"}, MembersOf({"b"}), {10, 20})

\* deleteGroup(g1) is called.
DeleteGroupCall(c) ==
    /\ calls[c].op = "none"
    /\ \A d \in 1..MaxCalls : calls[d].op # "deleteGroup"
    /\ calls' = [calls EXCEPT ![c] =
                    [NoCall EXCEPT !.op = "deleteGroup", !.pc = "requests",
                                   !.groupId = "g1"]]
    /\ UNCHANGED <<requests, engine, groups, group_members, page, form>>

\* DELETE FROM requests WHERE group_id = ...
DeleteRequests(c) ==
    /\ calls[c].pc = "requests"
    /\ requests' = <<>>
    /\ calls' = [calls EXCEPT ![c] =
                    [calls[c] EXCEPT !.pc = "members",
                                     !.deleted = @ + Len(requests)]]
    /\ UNCHANGED <<engine, groups, group_members, page, form>>

\* DELETE FROM group_members WHERE group_id = ...
DeleteMembers(c) ==
    /\ calls[c].pc = "members"
    /\ group_members' =
           SelectSeq(group_members, LAMBDA r : r.group_id # calls[c].groupId)
    /\ calls' = [calls EXCEPT ![c] =
                    [calls[c] EXCEPT
                        !.pc = "group",
                        !.deleted = @ + Len(RowsOfGroup(group_members,
                                                        calls[c].groupId))]]
    /\ UNCHANGED <<requests, engine, groups, page, form>>

\* DELETE FROM groups WHERE id = ..., then return { success: true }.
DeleteGroupRow(c) ==
    /\ calls[c].pc = "group"
    /\ groups' = groups \ {calls[c].groupId}
    /\ calls' = [calls EXCEPT ![c] =
                    [calls[c] EXCEPT
                        !.pc = "returned", !.result = "success",
                        !.deleted = @ + (IF calls[c].groupId \in groups
                                         THEN 1 ELSE 0)]]
    /\ UNCHANGED <<requests, engine, group_members, page, form>>

\* A DELETE statement throws: the catch returns success: false.
DeleteStatementFails(c) ==
    /\ calls[c].pc \in {"requests", "members", "group"}
    /\ calls' = [calls EXCEPT ![c] =
                    [calls[c] EXCEPT !.pc = "returned", !.result = "error"]]
    /\ UNCHANGED <<requests, engine, groups, group_members, page, form>>

InitDeleteGroup ==
    /\ \E table \in Tables(DeleteRows) : EngineIdle(table)
    /\ groups = {"g1"}
    /\ group_members = <<MemberRow("g1", "a", UserEmail["a"], "admin")>>
    /\ calls = [c \in 1..MaxCalls |-> NoCall]
    /\ page = NoPage
    /\ form = NoForm

NextDeleteGroup ==
    \/ AddRequest
    \/ \E c \in 1..MaxCalls :
           \/ DeleteGroupCall(c)
           \/ DeleteRequests(c)
           \/ DeleteMembers(c)
           \/ DeleteGroupRow(c)
           \/ DeleteStatementFails(c)
           \/ AddGroupMemberCall(c)
           \/ SelectExisting(c)
           \/ InsertMember(c)
           \/ MemberStatementFails(c)
           \/ CallOver(c)

SpecDeleteGroup == InitDeleteGroup /\ [][NextDeleteGroup]_vars

\* ------------------------------------------------------------------------
\* The group page (group/[id]/page.tsx) of an admin, one action per await;
\* its getOptimizedSettlements is the one of actions.ts.
\* ------------------------------------------------------------------------

\* The signed-in user of the page.
PageUser == "b"

\* DELETE FROM requests WHERE id = ...
deleteRequest(table, requestId) == SelectSeq(table, LAMBDA r : r.id # requestId)

\* The ids of the requests the page displays, and of those with the button
\* 'mark as settled'.
Displayed == {page.requests[k].id : k \in 1..Len(page.requests)}

DisplayedPending ==
    {page.requests[k].id :
        k \in {j \in 1..Len(page.requests) : page.requests[j].status = "pending"}}

\* fetchData: getGroupRequests and setRequests.
FetchRequests ==
    /\ page.pc = "unmounted"
    /\ page' = [page EXCEPT !.pc = "fetched", !.requests = getGroupRequests]
    /\ UNCHANGED <<requests, engine, groups, group_members, calls, form>>

\* fetchData: getOptimizedSettlements and setSettlements.
FetchSettlements ==
    /\ page.pc = "fetched"
    /\ page' = [page EXCEPT !.pc = "ready", !.last = "fetchData",
                            !.settlements = getOptimizedSettlements1(getGroupRequests)]
    /\ UNCHANGED <<requests, engine, groups, group_members, calls, form>>

\* handleDeleteRequest up to the result of deleteRequest.
HandleDeleteRequest ==
    /\ page.pc = "ready"
    /\ \E requestId \in Displayed :
           \/ /\ requests' = deleteRequest(requests, requestId)
              /\ page' = [page EXCEPT !.pc = "deleted"]
           \/ /\ page' = [page EXCEPT !.last = "failed"]
              /\ UNCHANGED requests
    /\ UNCHANGED <<engine, groups, group_members, calls, form>>

\* handleDeleteRequest after result.success: getGroupRequests, setRequests and
\* router.refresh(), which leaves the state of the component as it is.
RefetchAfterDelete ==
    /\ page.pc = "deleted"
    /\ page' = [page EXCEPT !.pc = "ready", !.last = "handleDeleteRequest",
                            !.requests = getGroupRequests]
    /\ UNCHANGED <<requests, engine, groups, group_members, calls, form>>

\* handleMarkAsSettled up to the result of markRequestAsSettled.
HandleMarkAsSettled ==
    /\ page.pc = "ready"
    /\ \E requestId \in DisplayedPending :
           \/ /\ requests' = markRequestAsSettled(requests, requestId, PageUser)
              /\ page' = [page EXCEPT !.pc = "marked"]
           \/ /\ page' = [page EXCEPT !.last = "failed"]
              /\ UNCHANGED requests
    /\ UNCHANGED <<engine, groups, group_members, calls, form>>

\* handleMarkAsSettled after result.success: getGroupRequests and setRequests.
RefetchAfterMark ==
    /\ page.pc = "marked"
    /\ page' = [page EXCEPT !.pc = "replan", !.requests = getGroupRequests]
    /\ UNCHANGED <<requests, engine, groups, group_members, calls, form>>

\* handleMarkAsSettled: getOptimizedSettlements and setSettlements.
ReplanAfterMark ==
    /\ page.pc = "replan"
    /\ page' = [page EXCEPT !.pc = "ready", !.last = "handleMarkAsSettled",
                            !.settlements = getOptimizedSettlements1(getGroupRequests)]
    /\ UNCHANGED <<requests, engine, groups, group_members, calls, form>>

\* The requests of the group of the page: a or b asks for two cents.
PageRows == {r \in LedgerRows : r.created_by \in {"a", "b"} /\ r.amount = 20}

InitGroupPage ==
    /\ \E table \in Tables(PageRows) : EngineIdle(table)
    /\ groups = {"g1"}
    /\ group_members = <<MemberRow("g1", PageUser, UserEmail[PageUser], "admin")>>
    /\ calls = [c \in 1..MaxCalls |-> NoCall]
    /\ page = NoPage
    /\ form = NoForm

NextGroupPage ==
    \/ FetchRequests
    \/ FetchSettlements
    \/ HandleDeleteRequest
    \/ RefetchAfterDelete
    \/ HandleMarkAsSettled
    \/ RefetchAfterMark
    \/ ReplanAfterMark

SpecGroupPage == InitGroupPage /\ [][NextGroupPage]_vars

\* ------------------------------------------------------------------------
\* The request form (expense/page.tsx) of the user a, who is in two groups;
\* one action per handler and per answer of a fetch.
\* ------------------------------------------------------------------------

\* The signed-in user of the form.
FormUser == "a"

\* What the user can leave in the amount field, an <input type="number">, and
\* what parseFloat makes of it, in mils.
AmountInputs == {"", "0", "-0.01", "0.005", "0.01"}

parseFloat(str) ==
    CASE str = "0" -> 0
      [] str = "-0.01" -> -10
      [] str = "0.005" -> 5
      [] str = "0.01" -> 10
      [] OTHER -> NaN

\* getUserGroups: the groups with a membership row of the user, ORDER BY
\* created_at DESC; g2 is the younger group.
getUserGroups(userId) ==
    SelectSeq(<<"g2", "g1">>,
              LAMBDA g : /\ g \in groups
                         /\ \E k \in 1..Len(group_members) :
                                /\ group_members[k].group_id = g
                                /\ group_members[k].user_id = userId)

\* getGroupMembers: SELECT user_id, user_email, role ... ORDER BY role DESC,
\* joined_at ASC, so the rows with role 'member' come before the admins.
getGroupMembers(groupId) ==
    LET rows == RowsOfGroup(group_members, groupId)
        cols == [k \in 1..Len(rows) |->
                    [user_id |-> rows[k].user_id, user_email |-> rows[k].user_email,
                     role |-> rows[k].role]]
    IN  SelectSeq(cols, LAMBDA r : r.role = "member")
            \o SelectSeq(cols, LAMBDA r : r.role = "admin")

\* members.filter(member => member.user_id !== user?.id)
filteredMembers(members) == SelectSeq(members, LAMBDA m : m.user_id # FormUser)

\* The effect fetchGroups: the first group becomes the selected one and its
\* members are fetched. Its later runs, with a group selected, change nothing.
FetchGroups ==
    /\ form.pc = "unmounted"
    /\ LET result == getUserGroups(FormUser)
       IN  form' = IF result # <<>> /\ form.group = ""
                   THEN [form EXCEPT !.pc = "loaded", !.group = Head(result),
                                     !.fetches = {Head(result)}]
                   ELSE [form EXCEPT !.pc = "loaded"]
    /\ UNCHANGED <<requests, engine, groups, group_members, calls, page>>

\* A call of fetchMembers gets its answer and sets members, whichever group
\* is selected by then.
MembersArrive ==
    /\ \E g \in form.fetches :
           form' = [form EXCEPT !.members = filteredMembers(getGroupMembers(g)),
                                !.fetches = @ \ {g}]
    /\ UNCHANGED <<requests, engine, groups, group_members, calls, page>>

\* The SELECT of getGroupMembers throws: its catch returns { members: [] }.
MembersFail ==
    /\ \E g \in form.fetches :
           form' = [form EXCEPT !.members = <<>>, !.fetches = @ \ {g}]
    /\ UNCHANGED <<requests, engine, groups, group_members, calls, page>>

\* handleGroupChange: setGroup, fetchMembers, setRequestTo(null).
HandleGroupChange ==
    /\ form.pc = "loaded"
    /\ \E k \in 1..Len(getUserGroups(FormUser)) :
           LET g == getUserGroups(FormUser)[k]
           IN  form' = [form EXCEPT !.group = g, !.fetches = @ \cup {g},
                                    !.requestTo = <<>>]
    /\ UNCHANGED <<requests, engine, groups, group_members, calls, page>>

\* handleRequestToSelect with one of the members the select displays.
HandleRequestToSelect ==
    /\ form.pc = "loaded"
    /\ form.group # ""
    /\ \E k \in 1..Len(form.members) :
           form' = [form EXCEPT !.requestTo = <<form.members[k]>>]
    /\ UNCHANGED <<requests, engine, groups, group_members, calls, page>>

\* The user types into the amount field.
SetAmount ==
    /\ form.pc = "loaded"
    /\ \E str \in AmountInputs : form' = [form EXCEPT !.amount = str]
    /\ form' # form
    /\ UNCHANGED <<requests, engine, groups, group_members, calls, page>>

\* The checks of handleSubmit that let the request through.
MaySubmit(recipient, amount) ==
    /\ recipient # <<>>
    /\ amount # ""
    /\ ~(parseFloat(amount) # NaN /\ parseFloat(amount) <= 0)

\* handleSubmit past its checks: addRequest(requestData), whose row goes to
\* the table requests when the group is g1; on success the fields are reset.
HandleSubmit ==
    /\ form.pc = "loaded"
    /\ form.members # <<>>
    /\ MaySubmit(form.requestTo, form.amount)
    /\ LET to == form.requestTo[1]
           requestData ==
               [groupId |-> form.group, createdBy |-> FormUser,
                amount |-> parseFloat(form.amount),
                requestTo |-> [id |-> to.user_id, email |-> to.user_email]]
           row == NewRequest(FormUser, <<to.user_id, to.user_email>>,
                             parseFloat(form.amount))
       IN  \/ /\ form.group = "g1" => Len(requests) < MaxReqs
              /\ requests' = IF form.group = "g1"
                             THEN addRequest(requests, row) ELSE requests
              /\ form' = [form EXCEPT !.sent = requestData, !.amount = "",
                                      !.requestTo = <<>>]
           \/ /\ form' = [form EXCEPT !.sent = requestData]
              /\ UNCHANGED requests
    /\ UNCHANGED <<engine, groups, group_members, calls, page>>

\* The user a has created g1 with b and then g2 with c.
InitForm ==
    /\ EngineIdle(<<>>)
    /\ groups = {"g1", "g2"}
    /\ group_members =
           <<MemberRow("g1", "a", UserEmail["a"], "admin"),
             MemberRow("g1", "b", UserEmail["b"], "member"),
             MemberRow("g2", "a", UserEmail["a"], "admin"),
             MemberRow("g2", "c", UserEmail["c"], "member")>>
    /\ calls = [c \in 1..MaxCalls |-> NoCall]
    /\ page = NoPage
    /\ form = NoForm

NextForm ==
    \/ FetchGroups
    \/ MembersArrive
    \/ MembersFail
    \/ HandleGroupChange
    \/ HandleRequestToSelect
    \/ SetAmount
    \/ HandleSubmit

SpecForm == InitForm /\ [][NextForm]_vars

\* ------------------------------------------------------------------------
\* Properties
\* ------------------------------------------------------------------------

\* getOptimizedSettlements of part_003 is past its calculateNetBalances.
InCall3 == pc \in {"loop", "validate", "read", "mark", "done"}

\* The state variables hold what the code's types allow.
TypeOK ==
    /\ pc \in {"idle", "loop", "validate", "read", "mark", "done", "done1", "done2",
              "complete", "completed"}
    /\ Len(requests) <= MaxReqs
    /\ \A k \in 1..Len(balances) :
           balances[k].balance # NaN /\ balances[k].balance % 10 = 0
    /\ pc = "done" => ret = getOptimizedSettlements3(snap)
    /\ pc = "completed" =>
           requests = markSettlementAsCompleted(completion.table, completion.fromId,
                                                completion.toId, completion.amount)

\* Every pending request has distinct creator and recipient and a positive
\* whole-cent amount.
ValidInput(reqs) ==
    \A k \in 1..Len(reqs) :
        reqs[k].status = "pending" =>
            /\ reqs[k].created_by # reqs[k].to_id
            /\ reqs[k].amount # NaN
            /\ reqs[k].amount > 0
            /\ reqs[k].amount % 10 = 0

\* C1 (conservation): when every pending request read by calculateNetBalances of
\* part_003 is valid, the sum of the positive balances it returns equals the
\* absolute sum of the negative ones, so the balance set sums to zero.
C1_Conservation ==
    (InCall3 /\ ValidInput(snap)) =>
        /\ TotalCredits(balances) = TotalDebits(balances)
        /\ SumBalance(balances) = 0

\* Three users with a non-zero balance from valid requests.
C1_Witness == InCall3 /\ ValidInput(snap) /\ Len(balances) = 3

\* What the settlements of plan pay to uid, less what they take from it.
RECURSIVE SignedSum(_, _)
SignedSum(plan, uid) ==
    IF plan = <<>> THEN 0
    ELSE (IF Head(plan).to.id = uid THEN Head(plan).amount ELSE 0)
         - (IF Head(plan).from.id = uid THEN Head(plan).amount ELSE 0)
         + SignedSum(Tail(plan), uid)

\* The balance of uid in a balance set, zero for a user dropped from it.
NetOf(bals, uid) ==
    IF HasUser(bals, uid) THEN bals[IndexOfUser(bals, uid)].balance ELSE 0

\* Every user id a request can carry.
UserIds == {m[1] : m \in Members}

\* C2 (plan soundness): in the plan part_003 returns, the signed sum of every
\* user's settlements is within 0.01 of the user's net balance, and a user
\* dropped from the balance set is in no settlement.
C2_PlanSoundness ==
    pc = "done" =>
        \A uid \in UserIds :
            /\ Abs(SignedSum(ret, uid) - NetOf(balances, uid)) <= epsilon
            /\ ~HasUser(balances, uid) =>
                   \A k \in 1..Len(ret) : ret[k].from.id # uid /\ ret[k].to.id # uid

\* C3 (no self-settlement): no settlement returned by any of the three
\* implementations pays a user to themselves.
C3_NoSelfSettlement ==
    pc \in {"done", "done1", "done2"} =>
        \A k \in 1..Len(ret) : ret[k].from.id # ret[k].to.id

\* part_002, which has no self-payment guard, returns two settlements.
C3_Witness == pc = "done2" /\ Len(ret) = 2

\* C4 (termination and bound): in the planner loop of part_003 the number of
\* settlements never exceeds the number of users of the balance set less one,
\* and every iteration either ends the loop or removes a debtor or a creditor,
\* so that the loop ends after at most that many iterations.
C4_TerminationBound ==
    /\ [](InCall3 /\ balances # <<>> => Len(settlements) <= Len(balances) - 1)
    /\ [][Iterate3 =>
             \/ pc' = "validate"
             \/ /\ Len(settlements') = Len(settlements) + 1
                /\ Len(debtors') + Len(creditors')
                       < Len(debtors) + Len(creditors)]_vars

\* The bound is reached: three users, two settlements, the loop over.
C4_Witness ==
    pc = "validate" /\ Len(balances) = 3 /\ Len(settlements) = 2

C6_ReadOnly == [][(pc # "idle" \/ pc' # "idle") => requests' = requests]_vars

\* The settlements of a plan, whatever their order.
SettlementSet(plan) == {plan[k] : k \in 1..Len(plan)}

\* The users and balances of a balance set, whatever their order.
BalanceSet(bals) ==
    {[userId |-> bals[k].userId, balance |-> bals[k].balance] : k \in 1..Len(bals)}

\* C7 (only pending requests count): in each implementation the balances and
\* the settlements of the plan are those of the same list of requests without
\* its settled rows.
C7_OnlyPending ==
    /\ pc = "done1" =>
           /\ BalanceSet(balances) = BalanceSet(calculateNetBalances1(PendingOf(snap)))
           /\ SettlementSet(ret)
                  = SettlementSet(getOptimizedSettlements1(PendingOf(snap)))
    /\ pc = "done2" =>
           /\ BalanceSet(balances) = BalanceSet(calculateNetBalances2(PendingOf(snap)))
           /\ SettlementSet(ret)
                  = SettlementSet(getOptimizedSettlements2(PendingOf(snap)))
    /\ InCall3 =>
           BalanceSet(balances) = BalanceSet(calculateNetBalances3(PendingOf(snap)))
    /\ pc = "done" =>
           SettlementSet(ret)
               = SettlementSet(getOptimizedSettlements3(PendingOf(snap)))

\* part_003 alone: its first forEach looks at pending rows only, so the settled
\* rows change neither the balances nor the plan, order included.
Part003OnlyPending ==
    /\ InCall3 => balances = calculateNetBalances3(PendingOf(snap))
    /\ pc = "done" => ret = getOptimizedSettlements3(PendingOf(snap))

\* A pending request to oneself, or for an amount that is zero, negative or not
\* a number.
InvalidRow(r) ==
    /\ r.status = "pending"
    /\ (r.created_by = r.to_id \/ r.amount = NaN \/ r.amount <= 0)

RECURSIVE WithoutInvalid(_)
WithoutInvalid(reqs) ==
    IF reqs = <<>> THEN <<>>
    ELSE IF InvalidRow(Head(reqs)) THEN WithoutInvalid(Tail(reqs))
         ELSE <<Head(reqs)>> \o WithoutInvalid(Tail(reqs))

\* C8 (invalid requests are skipped): calculateNetBalances of part_003 returns
\* for every user the balance it returns for the same list without the invalid
\* pending requests.
C8_InvalidSkipped ==
    InCall3 =>
        BalanceSet(balances) = BalanceSet(calculateNetBalances3(WithoutInvalid(snap)))

\* A self-request and a request with an invalid amount were read, and a balance
\* is returned all the same.
C8_Witness ==
    /\ InCall3
    /\ balances # <<>>
    /\ \E k \in 1..Len(snap) :
           snap[k].status = "pending" /\ snap[k].created_by = snap[k].to_id
    /\ \E k \in 1..Len(snap) :
           /\ snap[k].status = "pending"
           /\ snap[k].created_by # snap[k].to_id
           /\ (snap[k].amount = NaN \/ snap[k].amount <= 0)

\* The users whose final balance is at least 0.01 in absolute value.
AtLeastEpsilon(bals) ==
    {bals[k].userId : k \in {j \in 1..Len(bals) :
                                 bals[j].balance # NaN /\ Abs(bals[j].balance) >= epsilon}}

UsersOf(bals) == {bals[k].userId : k \in 1..Len(bals)}

\* C9 (epsilon drop): every implementation returns exactly the users whose
\* final balance is at least 0.01 in absolute value.
C9_EpsilonDrop ==
    /\ pc \in {"done1", "done2"} =>
           UsersOf(balances)
               = AtLeastEpsilon(Accumulate1(snap, InitBalances1(snap, <<>>)))
    /\ InCall3 =>
           UsersOf(balances)
               = AtLeastEpsilon(Accumulate3(snap, InitBalances3(snap, <<>>)))

\* The retained credits and debits differ by more than 0.01.
Inconsistent(reqs) ==
    Abs(TotalCredits(Retained3(reqs)) - TotalDebits(Retained3(reqs))) > epsilon

\* C10 (fail closed): when the retained positive and negative balances differ
\* by more than 0.01, calculateNetBalances of part_003 returns the empty set,
\* the planner makes no settlement and the returned plan is empty.
C10_FailClosed ==
    (InCall3 /\ Inconsistent(snap)) =>
        /\ balances = <<>>
        /\ settlements = <<>>
        /\ pc = "done" => ret = <<>>

\* A call returns after reading requests whose balances differ by two cents.
C10_Witness == pc = "done" /\ Inconsistent(snap)

\* C11 (settlement amounts): every settlement getOptimizedSettlements of
\* part_003 returns has an amount that is a number, a whole number of cents and
\* at least 0.01.
C11_AmountWholeCents ==
    pc = "done" =>
        \A k \in 1..Len(ret) :
            /\ ret[k].amount # NaN
            /\ ret[k].amount % 10 = 0
            /\ ret[k].amount >= epsilon

\* A plan is returned for requests one of which is for half a cent.
C11_Witness ==
    /\ pc = "done"
    /\ ret # <<>>
    /\ \E k \in 1..Len(snap) : snap[k].status = "pending" /\ snap[k].amount = 5

\* The balance of uid among the debtors or the creditors, zero once spliced out.
Remaining(side, uid) == NetOf(side, uid)

\* C12 (greedy matching): every iteration of the planner loop of part_003 that
\* makes a settlement takes a debtor and a creditor of maximal remaining
\* balance, transfers the minimum of the two balances, takes it off both, and
\* removes exactly the side whose balance falls below 0.01; nobody else changes.
C12_GreedyMatching ==
    [][(Iterate3 /\ settlements' # settlements) =>
          LET s == settlements'[Len(settlements')]
              d == Remaining(debtors, s.from.id)
              c == Remaining(creditors, s.to.id)
          IN  /\ settlements' = Append(settlements, s)
              /\ HasUser(debtors, s.from.id) /\ HasUser(creditors, s.to.id)
              /\ \A k \in 1..Len(debtors) : debtors[k].balance <= d
              /\ \A k \in 1..Len(creditors) : creditors[k].balance <= c
              /\ s.amount = Min(d, c)
              /\ HasUser(debtors', s.from.id) <=> d - s.amount >= epsilon
              /\ HasUser(creditors', s.to.id) <=> c - s.amount >= epsilon
              /\ Remaining(debtors', s.from.id) = d - s.amount
              /\ Remaining(creditors', s.to.id) = c - s.amount
              /\ \A uid \in UserIds \ {s.from.id} :
                     Remaining(debtors', uid) = Remaining(debtors, uid)
              /\ \A uid \in UserIds \ {s.to.id} :
                     Remaining(creditors', uid) = Remaining(creditors, uid)]_vars

\* Two debtors of different balance have paid the same creditor, the larger
\* first.
C12_Witness ==
    /\ pc = "validate"
    /\ Len(settlements) = 2
    /\ settlements[1].to.id = settlements[2].to.id
    /\ settlements[1].amount > settlements[2].amount

\* The order of the participant identifiers as strings.
IdRank == ("a" :> 1) @@ ("b" :> 2) @@ ("b@x" :> 3) @@ ("c" :> 4) @@ ("d" :> 5)

\* The same rows listed in another order.
Reorderings(reqs) ==
    {[i \in 1..Len(reqs) |-> reqs[p[i]]] :
        p \in {q \in [1..Len(reqs) -> 1..Len(reqs)] :
                  \A i, j \in 1..Len(reqs) : q[i] = q[j] => i = j}}

\* The least identifier among the users of side whose balance is the largest.
FirstById(side) ==
    CHOOSE uid \in UsersOf(side) :
        /\ \A k \in 1..Len(side) : side[k].balance <= Remaining(side, uid)
        /\ \A k \in 1..Len(side) :
               side[k].balance = Remaining(side, uid) =>
                   IdRank[uid] <= IdRank[side[k].userId]

\* C13 (deterministic tie-break): in part_003, for valid requests, every
\* settlement is from the debtor and to the creditor of least identifier among
\* those of the largest remaining balance, and the plan returned is the same
\* for every order in which the same requests are listed.
C13_TieBreakById ==
    /\ []((pc = "done" /\ ValidInput(snap)) =>
             \A other \in Reorderings(snap) : ret = getOptimizedSettlements3(other))
    /\ [][(Iterate3 /\ settlements' # settlements /\ ValidInput(snap)) =>
             LET s == settlements'[Len(settlements')]
             IN  /\ s.from.id = FirstById(debtors)
                 /\ s.to.id = FirstById(creditors)]_vars

\* What the valid pending requests of reqs owe to uid, less what uid owes.
RECURSIVE TrueNet(_, _)
TrueNet(reqs, uid) ==
    IF reqs = <<>> THEN 0
    ELSE LET r == Head(reqs)
         IN  (IF r.status = "pending" /\ ~InvalidRow(r)
              THEN (IF r.created_by = uid THEN r.amount ELSE 0)
                   - (IF r.to_id = uid THEN r.amount ELSE 0)
              ELSE 0)
             + TrueNet(Tail(reqs), uid)

\* The pending requests of reqs as <<creator, recipient, amount>>.
Obligations(reqs) ==
    {<<reqs[k].created_by, reqs[k].to_id, reqs[k].amount>> :
        k \in {j \in 1..Len(reqs) : reqs[j].status = "pending"}}

\* b requests 30 from a, and c requests 30 from b.
Chain(reqs) ==
    /\ Len(PendingOf(reqs)) = 2
    /\ Obligations(reqs) = {<<"b", "a", 30000>>, <<"c", "b", 30000>>}

\* The plan for the chain: a pays c 30 and nothing else.
ChainPlan ==
    <<[from |-> [id |-> "a", email |-> "a@x"],
       to |-> [id |-> "c", email |-> "c@x"],
       amount |-> 30000]>>

\* C14 (debt netting): in the plan part_003 returns, a user whose pending
\* requests net to zero is in no settlement; for the chain the plan is a pays c
\* 30 and nothing else; when every user nets to zero the plan is empty.
C14_DebtNetting ==
    pc = "done" =>
        /\ \A uid \in UserIds :
               TrueNet(snap, uid) = 0 =>
                   \A k \in 1..Len(ret) : ret[k].from.id # uid /\ ret[k].to.id # uid
        /\ Chain(snap) => ret = ChainPlan
        /\ (\A uid \in UserIds : TrueNet(snap, uid) = 0) => ret = <<>>

\* No pending request carries a fraction of a cent.
WholeCents(reqs) ==
    \A k \in 1..Len(reqs) :
        reqs[k].status = "pending" =>
            (reqs[k].amount = NaN \/ reqs[k].amount % 10 = 0)

\* Netting for requests of whole cents, where no update is rounded.
WholeCentNetting ==
    (pc = "done" /\ WholeCents(snap)) =>
        /\ \A uid \in UserIds :
               TrueNet(snap, uid) = 0 =>
                   \A k \in 1..Len(ret) : ret[k].from.id # uid /\ ret[k].to.id # uid
        /\ Chain(snap) => ret = ChainPlan
        /\ (\A uid \in UserIds : TrueNet(snap, uid) = 0) => ret = <<>>

\* The call returns for the chain.
ChainPlanned == pc = "done" /\ Chain(snap) /\ Len(ret) = 1

\* The call returns for a cycle of three requests of the same amount.
CyclePlanned ==
    /\ pc = "done"
    /\ Len(PendingOf(snap)) = 3
    /\ Obligations(snap) = {<<"a", "b", 30000>>, <<"b", "c", 30000>>, <<"c", "a", 30000>>}

\* The only pending request of reqs is for a positive amount below 0.01.
SingleSubCent(reqs) ==
    /\ Len(PendingOf(reqs)) = 1
    /\ PendingOf(reqs)[1].amount # NaN
    /\ PendingOf(reqs)[1].amount > 0
    /\ PendingOf(reqs)[1].amount < epsilon

\* C15 (sub-cent amounts vanish): when the only pending request is for less
\* than 0.01, calculateNetBalances of part_003 returns the empty balance set
\* and getOptimizedSettlements the empty plan.
C15_SubCentVanish ==
    (InCall3 /\ SingleSubCent(snap)) =>
        /\ balances = <<>>
        /\ pc = "done" => ret = <<>>

\* The table the call started from, oldest row first.
TableRead == Reverse(snap)

\* The table read with every pending row marked settled by its creator.
AllMarked(table) ==
    [i \in 1..Len(table) |->
        IF table[i].status = "pending"
        THEN Settled(table[i], table[i].created_by)
        ELSE table[i]]

AllFilteredOut == pc = "done" /\ settlements # <<>> /\ ret = <<>>

\* The balance of uid that calculateNetBalances of actions.ts accumulates from
\* the table, before its filter.
Net1(table, uid) ==
    LET reqs == Reverse(table)
    IN  NetOf(Accumulate1(reqs, InitBalances1(reqs, <<>>)), uid)

\* C18 (write-back matches the plan): for valid requests, when
\* markSettlementAsCompleted has returned for a settlement of the current plan
\* of actions.ts, the payer's recomputed balance is up by the amount and the
\* payee's down by it; when it has returned for every settlement of the plan,
\* the recomputed plan is empty.
C18_WriteBackMatchesPlan ==
    (pc = "completed" /\ completion.plan # <<>> /\ ValidInput(snap)) =>
        /\ Cardinality(completion.confirmed) = 1 =>
               /\ Net1(requests, completion.fromId)
                      = Net1(completion.table, completion.fromId) + completion.amount
               /\ Net1(requests, completion.toId)
                      = Net1(completion.table, completion.toId) - completion.amount
        /\ completion.confirmed = 1..Len(completion.plan) =>
               getOptimizedSettlements1(getGroupRequests) = <<>>

\* The pending requests created by toId and addressed to fromId, in the order
\* fetched.
RECURSIVE MatchingOf(_, _, _)
MatchingOf(pend, fromId, toId) ==
    IF pend = <<>> THEN <<>>
    ELSE IF Matches(Head(pend), fromId, toId)
         THEN <<Head(pend)>> \o MatchingOf(Tail(pend), fromId, toId)
         ELSE MatchingOf(Tail(pend), fromId, toId)

RECURSIVE SumAmount(_)
SumAmount(reqs) ==
    IF reqs = <<>> THEN 0 ELSE Head(reqs).amount + SumAmount(Tail(reqs))

\* How many of the matching requests are marked when the marking stops as soon
\* as their cumulative amount reaches the amount.
MarkedCount(matching, amount) ==
    LET enough == {n \in 0..Len(matching) :
                      SumAmount(SubSeq(matching, 1, n)) >= amount}
    IN  IF enough = {} THEN Len(matching)
        ELSE CHOOSE n \in enough : \A m \in enough : n <= m

\* C19 (frame of the write-back): a step of markSettlementAsCompleted changes
\* at most the request it looks at, which is pending, created by toId and
\* addressed to fromId, and only marks it settled by fromId; when the call
\* returns, the requests marked are the first matching ones in the order
\* fetched, up to the one with which their cumulative amount reaches the
\* amount, and every other request is as it was.
C19_CompletionFrame ==
    /\ [][(CompleteStep /\ requests' # requests) =>
             \E i \in 1..Len(requests) :
                 /\ requests[i].id = Head(pending).id
                 /\ requests[i].status = "pending"
                 /\ requests[i].created_by = completion.toId
                 /\ requests[i].to_id = completion.fromId
                 /\ requests' = [requests EXCEPT
                                    ![i] = Settled(requests[i], completion.fromId)]]_vars
    /\ [](pc = "completed" =>
             LET matching == MatchingOf(PendingOf(Reverse(completion.table)),
                                        completion.fromId, completion.toId)
                 n == MarkedCount(matching, completion.amount)
                 marked == {matching[k].id : k \in 1..n}
             IN  requests =
                     [i \in 1..Len(completion.table) |->
                         IF completion.table[i].id \in marked
                         THEN Settled(completion.table[i], completion.fromId)
                         ELSE completion.table[i]])

\* C20 (the final validation removes nothing): every settlement the planner
\* loop of part_003 has emitted passes the final validation, so the settlements
\* validated are the settlements emitted.
C20_ValidationKeepsAll ==
    pc = "done" => ValidSettlements3(settlements) = settlements

\* a requested one cent from b under the temporary id, then b, signed in,
\* requested one cent from a; the only settlement emitted is removed.
AliasSettlementRemoved ==
    /\ pc = "done"
    /\ Obligations(snap) = {<<"a", "b@x", 10>>, <<"b", "a", 10>>}
    /\ Len(settlements) = 1
    /\ ret = <<>>

\* C21 (debtors and creditors are disjoint): in the planner loop of part_003
\* no user is both among the debtors and among the creditors; every iteration
\* settles the first debtor with the first creditor, none ends in the break,
\* and the loop is left with one of the two lists empty.
C21_DisjointSides ==
    /\ [](InCall3 => UsersOf(debtors) \cap UsersOf(creditors) = {})
    /\ [][Iterate3 =>
             /\ settlements' # settlements
             /\ FirstPair3(SortDesc(debtors), SortDesc(creditors)) = <<1, 1>>]_vars
    /\ [](pc = "validate" => (debtors = <<>> \/ creditors = <<>>))

\* The loop has made settlements and ended with both lists empty.
C21_Witness ==
    /\ pc = "validate"
    /\ settlements # <<>>
    /\ debtors = <<>>
    /\ creditors = <<>>

\* C22 (loop invariant of the planner): at the start of every iteration of the
\* while loop of part_003 the remaining debts and the remaining credits have
\* the same sum and each is at least 0.01; when the loop has ended, both lists
\* are empty.
C22_LoopInvariant ==
    /\ pc = "loop" =>
           /\ SumBalance(debtors) = SumBalance(creditors)
           /\ \A k \in 1..Len(debtors) : debtors[k].balance >= epsilon
           /\ \A k \in 1..Len(creditors) : creditors[k].balance >= epsilon
    /\ pc = "validate" => (debtors = <<>> /\ creditors = <<>>)

\* The invariant for requests of whole cents, where no update is rounded.
WholeCentLoopInvariant == (InCall3 /\ WholeCents(snap)) => C22_LoopInvariant

\* C23: an invocation of getOptimizedSettlements (part_003) whose balance read
\* failed, so that calculateNetBalances saw no row of a table that has rows,
\* changes no row of the requests table.
C23_FailedReadSettlesNothing ==
    [][(InCall3 /\ snap = getGroupRequestsFailed /\ requests # <<>>)
           => requests' = requests]_vars

\* C24: under interleaving with addRequest, getOptimizedSettlements
\* (part_003) marks a request settled only if calculateNetBalances read that
\* request in the same invocation.
C24_MarksOnlyWhatWasRead ==
    [][Mark3 => \E i \in 1..Len(snap) : snap[i].id = Head(pending).id]_vars

\* Without interleaving and failing reads, every row the fallback marks was
\* read by calculateNetBalances.
SequentialMarksOnlyWhatWasRead == pc = "mark" => \A i \in 1..Len(pending) :
    \E j \in 1..Len(snap) : snap[j].id = pending[i].id

\* The signed total of every user in plan is within 0.01 of the user's net
\* balance over the pending requests of reqs.
PaysNet(plan, reqs) ==
    \A uid \in UserIds : Abs(SignedSum(plan, uid) - TrueNet(reqs, uid)) <= epsilon

\* The signed totals of every user in two plans are within 0.01 of each other.
SameTotals(p, q) ==
    \A uid \in UserIds : Abs(SignedSum(p, uid) - SignedSum(q, uid)) <= epsilon

\* C25: for pending requests with distinct creator and recipient and positive
\* whole-cent amounts, the plans of actions.ts, part_002 and part_003 give every
\* participant the same signed total within 0.01, the participant's net balance.
C25_EnginesAgree ==
    (pc = "done" /\ ValidInput(snap)) =>
        LET p1 == getOptimizedSettlements1(snap)
            p2 == getOptimizedSettlements2(snap)
        IN  /\ PaysNet(ret, snap) /\ PaysNet(p1, snap) /\ PaysNet(p2, snap)
            /\ SameTotals(p1, p2) /\ SameTotals(p1, ret) /\ SameTotals(p2, ret)

\* part_003 alone pays every user's net balance when no request is addressed
\* to a member under the temporary id.
Part003PaysNet ==
    (pc = "done" /\ ValidInput(snap)
        /\ \A k \in 1..Len(snap) : snap[k].to_id \in Users) => PaysNet(ret, snap)

\* A group has at most one row of group_members per e-mail address.
OneRowPerEmail ==
    \A i, j \in 1..Len(group_members) :
        (/\ group_members[i].group_id = group_members[j].group_id
         /\ group_members[i].user_email = group_members[j].user_email) => i = j

\* C26 (membership uniqueness): under every interleaving of createGroup and
\* addGroupMember a group has at most one membership row per e-mail address,
\* and addGroupMember for an address already in the group returns
\* 'User is already a member' and inserts nothing.
C26_MembershipUnique ==
    /\ []OneRowPerEmail
    /\ [][\A c \in 1..MaxCalls :
            (/\ SelectExisting(c)
             /\ existingMember(group_members, calls[c].groupId,
                               calls[c].userEmail) # <<>>)
                => /\ calls'[c].result = "already a member"
                   /\ group_members' = group_members]_vars

\* No row of requests, group_members or groups carries the group id g1.
NoRowOfGroup ==
    /\ requests = <<>>
    /\ RowsOfGroup(group_members, "g1") = <<>>
    /\ "g1" \notin groups

\* C27 (no orphans after group deletion): when deleteGroup(g1) returns success
\* no request, membership or group row of g1 exists, also with addRequest and
\* addGroupMember for g1 running between its statements; when it returns
\* success: false it has deleted no row.
C27_NoOrphans ==
    [][\A c \in 1..MaxCalls :
           /\ DeleteGroupRow(c) => NoRowOfGroup'
           /\ DeleteStatementFails(c) => calls[c].deleted = 0]_vars


\* The page displays the stored requests and the plan computed from them.
PageCurrent ==
    /\ page.requests = getGroupRequests
    /\ page.settlements = getOptimizedSettlements1(getGroupRequests)

\* C28 (group page consistency): when handleDeleteRequest or
\* handleMarkAsSettled has completed after a successful mutation, the page
\* displays the stored requests and the plan computed from them.
C28_PageConsistent ==
    (page.pc = "ready" /\ page.last \in {"handleDeleteRequest", "handleMarkAsSettled"})
        => PageCurrent

\* After fetchData and after handleMarkAsSettled the page is current.
MarkKeepsPageCurrent ==
    (page.pc = "ready" /\ page.last \in {"fetchData", "handleMarkAsSettled"})
        => PageCurrent

\* userId has a membership row in the group.
IsMember(groupId, userId) ==
    \E k \in 1..Len(group_members) :
        /\ group_members[k].group_id = groupId
        /\ group_members[k].user_id = userId

\* C29 (request form): every requestData the form passes to addRequest has an
\* amount greater than zero, a recipient other than the creator, and a
\* recipient who is a member of the submitted group.
C29_FormSubmitsValid ==
    form.sent # NoSent =>
        /\ form.sent.amount # NaN
        /\ form.sent.amount > 0
        /\ form.sent.requestTo.id # form.sent.createdBy
        /\ IsMember(form.sent.groupId, form.sent.requestTo.id)

\* The amount and the recipient's id alone are as the claim says.
FormAmountAndRecipient ==
    form.sent # NoSent =>
        /\ form.sent.amount # NaN
        /\ form.sent.amount > 0
        /\ form.sent.requestTo.id # form.sent.createdBy

====
